---- MODULE Spec2Model ----
(***************************************************************************)
(* A model of pylal.ligolw_burca_tailor (coincidence parameters and the    *)
(* CoincParamsDistributions book-keeping object with its XML I/O) and of   *)
(* the module body of bin/plot_likelihood.py.                              *)
(*                                                                         *)
(* Real numbers are exact rationals <<n, d>> with d > 0.  A Rate           *)
(* (pylal.rate.Rate) is a record: its bins (min, max, n) and its array,    *)
(* held as integer numerators num over one denominator den, in lowest      *)
(* terms; nan says that the array holds NaN in every bin (what numpy's     *)
(* 0.0 / 0.0 leaves, and what every later arithmetic on it keeps).         *)
(* Strings joined by "_" are TLA+ strings; a string of ":"-separated       *)
(* fields (an XML Name attribute) is the tuple of its fields.              *)
(***************************************************************************)
EXTENDS Integers, Sequences, FiniteSets, TLC

VARIABLES
  rates,     \* the Rate objects: object id -> Rate
  acc,       \* the CoincParamsDistributions objects: slot -> its two dicts
  call,      \* the last call made and how it ended
  recorded,  \* the Rate objects an add method has put a value into
  finished,  \* slot -> the finish() calls made on the accumulator in it
  merged,    \* the pairs <<a, b>> of slots for which a += b gave a a name
             \* only b had
  ncalls,    \* library calls made so far
  nload,     \* accumulators read back from XML so far
  xmldoc,    \* the last element coinc_params_distributions_to_xml returned
  snap,      \* the histograms of the accumulator xmldoc was made from, then
  pc,        \* plot_likelihood.py: position in the module body
  opts,      \* plot_likelihood.py: the parsed options and matched files
  read,      \* plot_likelihood.py: the file lists read so far
  todo,      \* plot_likelihood.py: the coincs the current loop still visits
  outfile    \* plot_likelihood.py: what is in distributions.xml

vars == <<rates, acc, call, recorded, finished, merged, ncalls, nload,
          xmldoc, snap,
          pc, opts, read, todo, outfile>>

(***************************************************************************)
(* Bounds of the model.                                                    *)
(***************************************************************************)
MaxEvents == 2
MaxCalls == 3
MaxStatCalls == 1
MaxCoincs == 1
MaxPick == 3

(***************************************************************************)
(* Arithmetic.                                                             *)
(***************************************************************************)
Abs(x) == IF x < 0 THEN -x ELSE x

RECURSIVE GCD(_, _)
GCD(a, b) == IF b = 0 THEN a ELSE GCD(b, a % b)

RECURSIVE SeqSum(_)
SeqSum(s) == IF s = <<>> THEN 0 ELSE Head(s) + SeqSum(Tail(s))

RECURSIVE SeqGCD(_)
SeqGCD(s) == IF s = <<>> THEN 0 ELSE GCD(Head(s), SeqGCD(Tail(s)))

\* |x| > |y| for rationals x, y
AbsGreater(x, y) == Abs(x[1]) * y[2] > Abs(y[1]) * x[2]

\* (a - b) / ((a + b) / 2) for a + b # 0
FracDiff(a, b) ==
  IF a + b > 0 THEN <<2 * (a - b), a + b>> ELSE <<-2 * (a - b), -(a + b)>>

Range(f) == {f[x] : x \in DOMAIN f}

(***************************************************************************)
(* Burst events and coinc_params().                                        *)
(***************************************************************************)
Instruments == <<"H1", "H2", "L1">>

\* cmp(a, b) on the instrument names: -1, 0 or 1 by alphabetical order
cmp(a, b) ==
  LET ra == CHOOSE i \in 1..Len(Instruments) : Instruments[i] = a
      rb == CHOOSE i \in 1..Len(Instruments) : Instruments[i] = b
  IN  IF ra < rb THEN -1 ELSE IF ra > rb THEN 1 ELSE 0

Event(ifo, peak, f, hrss, band, dur) ==
  [ifo |-> ifo, peak |-> peak, peak_frequency |-> f, ms_hrss |-> hrss,
   ms_bandwidth |-> band, ms_duration |-> dur, ms_snr |-> 1]

\* The sngl_burst rows the calls draw their event lists from.
EventPool ==
  << Event("H1", 0, 3, 1, 1, 1),
     Event("H2", 1, 1, 1, 1, 1),
     Event("L1", 0, 1, 3, 1, 0),
     Event("H1", 2, 1, 1, 3, 0),
     Event("H2", 4, 3, 3, 1, 1) >>

\* The time slide dictionaries the calls draw offsetdict from.
ZeroLag == [i \in {"H1", "H2", "L1"} |-> 0]
Slide == [i \in {"H1", "H2", "L1"} |-> IF i = "H2" THEN 3 ELSE 0]
OffsetDicts == {ZeroLag, Slide}

\* Lists of at most MaxEvents different rows of the pool, in any order.
EventLists ==
  LET Idx == UNION {[1..n -> 1..Len(EventPool)] : n \in 0..MaxEvents}
  IN  {[k \in 1..Len(ix) |-> EventPool[ix[k]]] :
         ix \in {jx \in Idx : \A a, b \in 1..Len(jx) : a # b => jx[a] # jx[b]}}

RECURSIVE InsertSorted(_, _)
InsertSorted(e, s) ==
  IF s = <<>> THEN <<e>>
  ELSE IF cmp(Head(s).ifo, e.ifo) <= 0
       THEN <<Head(s)>> \o InsertSorted(e, Tail(s))
       ELSE <<e>> \o s

\* the events left in the order given
SortEventsNot(events) == events

\* events.sort(lambda a, b: cmp(a.ifo, b.ifo)): a stable sort by instrument
RECURSIVE SortEvents(_)
SortEvents(events) ==
  IF events = <<>> THEN <<>>
  ELSE InsertSorted(events[Len(events)],
                    SortEvents(SubSeq(events, 1, Len(events) - 1)))

\* iterutils.choices(events, 2): the pairs (events[i], events[j]), i < j,
\* in lexicographic order of (i, j)
RECURSIVE choices2(_)
choices2(s) ==
  IF Len(s) < 2 THEN <<>>
  ELSE [k \in 1..(Len(s) - 1) |-> <<s[1], s[k + 1]>>] \o choices2(Tail(s))

\* "%s_%s_" % (event1.ifo, event2.ifo)
Prefix(ifo1, ifo2) == ifo1 \o "_" \o ifo2 \o "_"

\* params[name] = v whatever is recorded already
RecordLast(params, name, v) == (name :> v) @@ params

\* if name not in params or abs(params[name]) > abs(v): params[name] = v
Record(params, name, v) ==
  IF name \notin DOMAIN params \/ AbsGreater(params[name], v)
  THEN (name :> v) @@ params
  ELSE params

\* One pass of the loop body for a pair of events of different instruments:
\* the exception it raises ("none" when it completes) and params after it.
PairParams(params, e1, e2, offsetdict) ==
  LET prefix == Prefix(e1.ifo, e2.ifo)
      zero == \/ e1.peak_frequency + e2.peak_frequency = 0
              \/ e1.ms_hrss + e2.ms_hrss = 0
              \/ e1.ms_bandwidth + e2.ms_bandwidth = 0
              \/ e1.ms_duration + e2.ms_duration = 0
  IN  IF e1.ifo \notin DOMAIN offsetdict \/ e2.ifo \notin DOMAIN offsetdict
      THEN [exc |-> "KeyError", params |-> params]
      ELSE IF zero
      THEN [exc |-> "ZeroDivisionError", params |-> params]
      ELSE
        LET dt == <<e1.peak + offsetdict[e1.ifo]
                      - e2.peak - offsetdict[e2.ifo], 1>>
            p1 == Record(params, prefix \o "dt", dt)
            p2 == Record(p1, prefix \o "df",
                         FracDiff(e1.peak_frequency, e2.peak_frequency))
            p3 == Record(p2, prefix \o "dh", FracDiff(e1.ms_hrss, e2.ms_hrss))
            p4 == Record(p3, prefix \o "dband",
                         FracDiff(e1.ms_bandwidth, e2.ms_bandwidth))
            p5 == Record(p4, prefix \o "ddur",
                         FracDiff(e1.ms_duration, e2.ms_duration))
        IN  [exc |-> "none", params |-> p5]

RECURSIVE PairLoop(_, _, _)
PairLoop(res, pairs, offsetdict) ==
  IF pairs = <<>> \/ res.exc # "none" THEN res
  ELSE LET e1 == Head(pairs)[1]
           e2 == Head(pairs)[2]
       IN  IF e1.ifo = e2.ifo
           THEN PairLoop(res, Tail(pairs), offsetdict)
           ELSE PairLoop(PairParams(res.params, e1, e2, offsetdict),
                         Tail(pairs), offsetdict)

\* coinc_params(events, offsetdict): the dictionary it returns, or the
\* exception it raises.  The weighted mean time t is computed and dropped;
\* its division raises when every ms_snr is 0.
coinc_params(events, offsetdict) ==
  LET sorted == SortEvents(events)
      snr2 == SeqSum([k \in 1..Len(sorted) |-> sorted[k].ms_snr * sorted[k].ms_snr])
      empty == [exc |-> "none", params |-> <<>>]
  IN  IF sorted # <<>> /\ snr2 = 0
      THEN [exc |-> "ZeroDivisionError", params |-> <<>>]
      ELSE PairLoop(empty, choices2(sorted), offsetdict)

\* plot_likelihood.py: the parameter functions of the script; events is one
\* trigger, and get_effective_snr() gives its effective SNR.
single_params_func(events, timeslide) ==
  [exc |-> "none",
   params |-> [name \in {"H1_eff_snr", "H2_eff_snr", "L1_eff_snr"} |->
                 events.effective_snr]]

double_params_func(events, timeslides) ==
  [exc |-> "none",
   params |-> [name \in {"H1H2_eff_snr", "H1L1_eff_snr", "H2L1_eff_snr"} |->
                 events.effective_snr]]

\* param_func(events, timeslide), the function given by its name
Apply(param_func, events, timeslide) ==
  CASE param_func = "coinc_params" -> coinc_params(events, timeslide)
    [] param_func = "single_params_func" ->
         single_params_func(events, timeslide)
    [] param_func = "double_params_func" ->
         double_params_func(events, timeslide)

(***************************************************************************)
(* pylal.rate.Rate: a binned array over a closed interval.                 *)
(***************************************************************************)
Zeros(n) == [k \in 1..n |-> 0]

\* rate.Rate(segment, width): n bins of the given width, all 0.0
NewRate(segment, width) ==
  [min |-> segment[1], max |-> segment[2],
   n |-> (segment[2] - segment[1]) \div width,
   num |-> Zeros((segment[2] - segment[1]) \div width), den |-> 1,
   nan |-> FALSE]

\* the array in lowest terms
Canon(h) ==
  LET g == GCD(SeqGCD(h.num), h.den)
  IN  [h EXCEPT !.num = [k \in 1..Len(h.num) |-> h.num[k] \div g],
                !.den = h.den \div g]

NaNRate(h) == [h EXCEPT !.num = Zeros(Len(h.num)), !.den = 1, !.nan = TRUE]

\* rate.bins[x]: the index (from 1) of the bin holding x, 0 for IndexError.
\* The upper end of the interval belongs to the last bin.
RateIndex(h, x) ==
  IF x[1] < h.min * x[2] \/ x[1] > h.max * x[2] THEN 0
  ELSE IF x[1] = h.max * x[2] THEN h.n
  ELSE ((x[1] - h.min * x[2]) * h.n) \div (x[2] * (h.max - h.min)) + 1

\* rate[x] += 1.0 at bin i
RateIncrement(h, i) ==
  IF h.nan THEN h ELSE Canon([h EXCEPT !.num[i] = @ + h.den])

\* rate += other: the arrays are summed bin for bin
RateIAdd(h, other) ==
  IF h.nan \/ other.nan THEN NaNRate(h)
  ELSE Canon([h EXCEPT
         !.num = [k \in 1..Len(h.num) |->
                    h.num[k] * other.den + other.num[k] * h.den],
         !.den = h.den * other.den])

\* rate.filter(): the array convolved with the window (1, 2, 1) / 4
RateFilter(h) ==
  IF h.nan THEN h
  ELSE LET at(k) == IF k < 1 \/ k > Len(h.num) THEN 0 ELSE h.num[k]
       IN  Canon([h EXCEPT
             !.num = [k \in 1..Len(h.num) |->
                        at(k - 1) + 2 * at(k) + at(k + 1)],
             !.den = 4 * h.den])

\* rate.array /= numpy.sum(rate.array); 0.0 / 0.0 is NaN in every bin
RateNormalize(h) ==
  IF h.nan \/ SeqSum(h.num) = 0 THEN NaNRate(h)
  ELSE Canon([h EXCEPT !.den = SeqSum(h.num)])

(***************************************************************************)
(* DistributionsStats: the parameters and their Rate arguments.  Times are *)
(* in units in which the dt interval is that of the other parameters, and  *)
(* every width is BinWidth.                                                *)
(***************************************************************************)
Lo == -2
Hi == 2
BinWidth == 1

Suffixes == {"dt", "df", "dh", "dband", "ddur"}

\* the names "%s_%s_<suffix>" % pair of one instrument pair
PairNames(pair) == {Prefix(pair[1], pair[2]) \o sfx : sfx \in Suffixes}

\* DistributionsStats.__init__: rate_args, over the pairs of
\* iterutils.choices(("H1", "H2", "L1"), 2)
rate_args ==
  LET pairs == choices2(Instruments)
      names == UNION {PairNames(pairs[k]) : k \in 1..Len(pairs)}
  IN  [name \in names |-> <<(<<Lo, Hi>>), BinWidth>>]

(***************************************************************************)
(* CoincParamsDistributions.                                               *)
(***************************************************************************)
Regimes == {"background", "injection"}

\* the Rate object made for a parameter by constructor call gen of a slot
ObjId(slot, gen, regime, name) == <<slot, gen, regime, name>>

\* CoincParamsDistributions(**kwargs): the two dicts
NewDicts(slot, gen, kwargs) ==
  [background_rates |->
     [name \in DOMAIN kwargs |-> ObjId(slot, gen, "background", name)],
   injection_rates |->
     [name \in DOMAIN kwargs |-> ObjId(slot, gen, "injection", name)]]

\* ... and the Rate objects it creates
NewRates(slot, gen, kwargs) ==
  [o \in {ObjId(slot, gen, r, name) : r \in Regimes, name \in DOMAIN kwargs}
     |-> NewRate(kwargs[o[4]][1], kwargs[o[4]][2])]

Dict(a, regime) ==
  IF regime = "background" THEN a.background_rates ELSE a.injection_rates

\* The loop over the items of params on dict d: the names whose item was
\* handled (in dict order, which is not fixed) and the exception raised.
\* The lookup d[param] stands outside the try and raises KeyError.
AddOutcomesSkip(d, params) ==
  {[done |-> DOMAIN params \cap DOMAIN d, err |-> "none"]}

AddOutcomes(d, params) ==
  IF DOMAIN params \subseteq DOMAIN d
  THEN {[done |-> DOMAIN params, err |-> "none"]}
  ELSE {[done |-> S, err |-> "KeyError"] :
          S \in SUBSET (DOMAIN params \cap DOMAIN d)}

\* the loop with a value outside the interval counted in the nearest bin
AddRatesClamped(rs, d, params, done) ==
  [o \in DOMAIN rs |->
     IF \E p \in done : d[p] = o
     THEN LET p == CHOOSE q \in done : d[q] = o
              i == RateIndex(rs[o], params[p])
          IN  RateIncrement(rs[o],
                IF i # 0 THEN i
                ELSE IF params[p][1] < 0 THEN 1 ELSE rs[o].n)
     ELSE rs[o]]

\* rate[value] += 1.0 for the handled items; IndexError is passed over
AddRates(rs, d, params, done) ==
  [o \in DOMAIN rs |->
     IF \E p \in done : d[p] = o /\ RateIndex(rs[o], params[p]) # 0
     THEN LET p == CHOOSE q \in done : d[q] = o
          IN  RateIncrement(rs[o], RateIndex(rs[o], params[p]))
     ELSE rs[o]]

\* the Rate objects whose rate[value] += 1.0 went through
Recorded(rs, d, params, done) ==
  {d[p] : p \in {q \in done : RateIndex(rs[d[q]], params[q]) # 0}}

NoCall ==
  [op |-> "none", slot |-> 0, other |-> 0, args |-> <<>>, common |-> {},
   returned |-> FALSE, params |-> <<>>, err |-> "none"]

\* The body of the two add methods, on the dict of one regime: res is what
\* param_func(events, timeslide) gave.
AddCall(op, regime, k, args, res) ==
  /\ IF res.exc # "none"
     THEN /\ rates' = rates
          /\ recorded' = recorded
          /\ call' = [NoCall EXCEPT !.op = op, !.slot = k, !.args = args,
                                    !.err = res.exc]
     ELSE \E out \in AddOutcomes(Dict(acc[k], regime), res.params) :
            /\ rates' = AddRates(rates, Dict(acc[k], regime), res.params,
                                 out.done)
            /\ recorded' = recorded \cup
                 Recorded(rates, Dict(acc[k], regime), res.params, out.done)
            /\ call' = [NoCall EXCEPT !.op = op, !.slot = k, !.args = args,
                                      !.returned = TRUE,
                                      !.params = res.params, !.err = out.err]
  /\ UNCHANGED <<acc, finished, merged, nload, xmldoc, snap>>

add_background(k, param_func, events, timeslide) ==
  AddCall("add_background", "background", k, <<events, timeslide>>,
          Apply(param_func, events, timeslide))

\* add_injection written over the background dict
add_injection_background(k, param_func, events, timeslide) ==
  AddCall("add_injection", "background", k, <<events, timeslide>>,
          Apply(param_func, events, timeslide))

add_injection(k, param_func, events, timeslide) ==
  AddCall("add_injection", "injection", k, <<events, timeslide>>,
          Apply(param_func, events, timeslide))

\* the loop with the names self lacks left out
MergeDictMine(mine, theirs) == mine

\* One loop of __iadd__: the dict of self after it
MergeDict(mine, theirs) ==
  [p \in DOMAIN mine \cup DOMAIN theirs |->
     IF p \in DOMAIN mine THEN mine[p] ELSE theirs[p]]

\* ... and the Rate objects after it: self's Rate gets other's added in place
MergeRates(rs, mine, theirs) ==
  [o \in DOMAIN rs |->
     IF \E p \in DOMAIN mine \cap DOMAIN theirs : mine[p] = o
     THEN LET p == CHOOSE q \in DOMAIN mine \cap DOMAIN theirs : mine[q] = o
          IN  RateIAdd(rs[o], rs[theirs[p]])
     ELSE rs[o]]

\* self += other with the loop over other.injection_rates left out
iadd_background_only(k, j) ==
  /\ rates' = MergeRates(rates, acc[k].background_rates,
                         acc[j].background_rates)
  /\ acc' = [acc EXCEPT ![k].background_rates =
                          MergeDict(acc[k].background_rates,
                                    acc[j].background_rates)]
  /\ call' = [NoCall EXCEPT !.op = "iadd", !.slot = k, !.other = j,
                            !.common = DOMAIN acc[k].background_rates
                                         \cap DOMAIN acc[j].background_rates]
  /\ UNCHANGED <<recorded, finished, merged, nload, xmldoc, snap>>

\* self += other, both CoincParamsDistributions
iadd(k, j) ==
  /\ rates' = MergeRates(
                MergeRates(rates, acc[k].background_rates,
                           acc[j].background_rates),
                acc[k].injection_rates, acc[j].injection_rates)
  /\ acc' = [acc EXCEPT ![k] =
       [background_rates |-> MergeDict(acc[k].background_rates,
                                       acc[j].background_rates),
        injection_rates |-> MergeDict(acc[k].injection_rates,
                                      acc[j].injection_rates)]]
  /\ call' = [NoCall EXCEPT !.op = "iadd", !.slot = k, !.other = j,
                            !.common = DOMAIN acc[k].background_rates
                                         \cap DOMAIN acc[j].background_rates]
  /\ merged' = IF \E r \in Regimes :
                    ~(DOMAIN Dict(acc[j], r) \subseteq DOMAIN Dict(acc[k], r))
                THEN merged \cup {<<k, j>>}
                ELSE merged
  /\ UNCHANGED <<recorded, finished, nload, xmldoc, snap>>

\* set_filter(param, filterwidth, windowfunc): the Rate of each regime is
\* looked up by name and given the window.  The window of a Rate is not
\* part of its record here, so the call shows in the call record only.
set_filter(k, param) ==
  /\ call' = [NoCall EXCEPT
       !.op = "set_filter", !.slot = k, !.args = <<param>>,
       !.err = IF param \in DOMAIN acc[k].background_rates
                     /\ param \in DOMAIN acc[k].injection_rates
                THEN "none" ELSE "KeyError"]
  /\ UNCHANGED <<rates, acc, recorded, finished, merged, nload, xmldoc,
                 snap>>

\* What self += other may be given that is not a CoincParamsDistributions:
\* a dict, or an instance of a subclass that holds the dicts of the
\* accumulator in slot 2.
MismatchedOthers ==
  {[type |-> "dict", slot |-> 0], [type |-> "subclass", slot |-> 2]}

\* the type test left out: the loops run over whatever other holds
iadd_unchecked(k, other) ==
  /\ other.type # "CoincParamsDistributions"
  /\ IF other.type = "dict"
     THEN /\ call' = [NoCall EXCEPT !.op = "iadd", !.slot = k,
                                    !.args = <<other>>,
                                    !.err = "AttributeError"]
          /\ UNCHANGED <<rates, acc>>
     ELSE /\ rates' = MergeRates(
                        MergeRates(rates, acc[k].background_rates,
                                   acc[other.slot].background_rates),
                        acc[k].injection_rates,
                        acc[other.slot].injection_rates)
          /\ acc' = [acc EXCEPT ![k] =
               [background_rates |->
                  MergeDict(acc[k].background_rates,
                            acc[other.slot].background_rates),
                injection_rates |->
                  MergeDict(acc[k].injection_rates,
                            acc[other.slot].injection_rates)]]
          /\ call' = [NoCall EXCEPT !.op = "iadd", !.slot = k,
                                    !.args = <<other>>]
  /\ UNCHANGED <<recorded, finished, merged, nload, xmldoc, snap>>

\* self += other with type(other) != type(self): lines 192-193
iadd_mismatched(k, other) ==
  /\ other.type # "CoincParamsDistributions"
  /\ call' = [NoCall EXCEPT !.op = "iadd", !.slot = k, !.args = <<other>>,
                            !.err = "TypeError"]
  /\ UNCHANGED <<rates, acc, recorded, finished, merged, nload, xmldoc,
                 snap>>

\* finish() on the Rate objects: filter, then divide by the sum
FinishRates(rs, a) ==
  [o \in DOMAIN rs |->
     IF o \in Range(a.background_rates) \cup Range(a.injection_rates)
     THEN RateNormalize(RateFilter(rs[o]))
     ELSE rs[o]]

\* finish() that returns at once on an accumulator already finished
finish_once(k) ==
  /\ rates' = IF finished[k] > 0 THEN rates ELSE FinishRates(rates, acc[k])
  /\ call' = [NoCall EXCEPT !.op = "finish", !.slot = k]
  /\ finished' = [finished EXCEPT ![k] = @ + 1]
  /\ UNCHANGED <<acc, recorded, merged, nload, xmldoc, snap>>

finish(k) ==
  /\ rates' = FinishRates(rates, acc[k])
  /\ call' = [NoCall EXCEPT !.op = "finish", !.slot = k]
  /\ finished' = [finished EXCEPT ![k] = @ + 1]
  /\ UNCHANGED <<acc, recorded, merged, nload, xmldoc, snap>>

(***************************************************************************)
(* XML I/O.  An element is a record; its Name attribute is the tuple of    *)
(* the ":"-separated fields of the string.                                 *)
(***************************************************************************)
DistName == "pylal_ligolw_burca_tailor_coincparamsdistributions"

\* the bin boundaries of a Rate, lowest first
Edges(h) ==
  [k \in 1..(h.n + 1) |-> <<h.min * h.n + (k - 1) * (h.max - h.min), h.n>>]

\* rate.rate_to_xml(rateobj, "<regime>:<param>"): the bins and the array
rate_to_xml(h, regime, param) ==
  [Name |-> <<regime, param, "pylal_rate_rate">>,
   edges |-> Edges(h),
   array |-> [num |-> h.num, den |-> h.den, nan |-> h.nan]]

\* the Rate an element written by rate_to_xml holds
RateOfElement(e) ==
  LET first == e.edges[1]
      last == e.edges[Len(e.edges)]
  IN  [min |-> first[1] \div first[2], max |-> last[1] \div last[2],
       n |-> Len(e.edges) - 1,
       num |-> e.array.num, den |-> e.array.den, nan |-> e.array.nan]

\* the writer with the background Rate written under both prefixes
to_xml_background_twice(process_id, a, rs, name) ==
  [Name |-> <<name, DistName>>,
   process_id |-> process_id,
   childNodes |->
     {rate_to_xml(rs[a.background_rates[p]], "background", p) :
        p \in DOMAIN a.background_rates}
     \cup {rate_to_xml(rs[a.background_rates[p]], "injection", p) :
             p \in DOMAIN a.injection_rates}]

\* coinc_params_distributions_to_xml(process, c, name), c given by its two
\* dicts and the Rate objects
coinc_params_distributions_to_xml(process_id, a, rs, name) ==
  [Name |-> <<name, DistName>>,
   process_id |-> process_id,
   childNodes |->
     {rate_to_xml(rs[a.background_rates[p]], "background", p) :
        p \in DOMAIN a.background_rates}
     \cup {rate_to_xml(rs[a.injection_rates[p]], "injection", p) :
             p \in DOMAIN a.injection_rates}]

\* the parameter names coinc_params_distributions_from_xml reads: field 1 of
\* the Name of every child whose Name starts with "background:" (the
\* process_id Param's does not)
XmlNames(xml) ==
  {e.Name[2] : e \in {c \in xml.childNodes : c.Name[1] = "background"}}

\* rate.rate_from_xml(xml, "<regime>:<param>") finds exactly one element
HasRate(xml, regime, param) ==
  Cardinality({e \in xml.childNodes :
                 e.Name = <<regime, param, "pylal_rate_rate">>}) = 1

rate_from_xml(xml, regime, param) ==
  RateOfElement(CHOOSE e \in xml.childNodes :
                  e.Name = <<regime, param, "pylal_rate_rate">>)

\* whether coinc_params_distributions_from_xml(xml, name) raises
FromXmlFails(xml, name) ==
  \/ xml.Name # <<name, DistName>>
  \/ \E p \in XmlNames(xml) :
       ~HasRate(xml, "background", p) \/ ~HasRate(xml, "injection", p)

\* The histograms of an accumulator, by regime and parameter.
View(a, rs) ==
  [background |->
     [p \in DOMAIN a.background_rates |-> rs[a.background_rates[p]]],
   injection |->
     [p \in DOMAIN a.injection_rates |-> rs[a.injection_rates[p]]]]

ProgramName == "ligolw_burca_tailor"

\* xmldoc = coinc_params_distributions_to_xml(process, c, name) of slot k
to_xml(k) ==
  /\ xmldoc' = <<coinc_params_distributions_to_xml(0, acc[k], rates,
                                                   ProgramName)>>
  /\ snap' = <<View(acc[k], rates)>>
  /\ call' = [NoCall EXCEPT !.op = "to_xml", !.slot = k]
  /\ UNCHANGED <<rates, acc, recorded, finished, merged, nload>>

\* the dicts coinc_params_distributions_from_xml fills, for load gen
LoadedDicts(xml, gen) ==
  [background_rates |->
     [p \in XmlNames(xml) |-> ObjId(3, gen, "background", p)],
   injection_rates |->
     [p \in XmlNames(xml) |-> ObjId(3, gen, "injection", p)]]

\* ... and the Rate objects it makes
LoadedRates(xml, gen) ==
  [o \in {ObjId(3, gen, r, p) : r \in Regimes, p \in XmlNames(xml)} |->
     rate_from_xml(xml, o[3], o[4])]

\* the names of xml whose two elements are both there to read
ReadableNames(xml) ==
  {p \in XmlNames(xml) :
     HasRate(xml, "background", p) /\ HasRate(xml, "injection", p)}

\* the function with the accumulator handed out as far as it was filled
\* when an element is missing
LoadXmlPartial(xml, name, args) ==
  LET used == UNION {Range(acc[s].background_rates)
                       \cup Range(acc[s].injection_rates) : s \in {1, 2}}
      names == IF xml.Name # <<name, DistName>> THEN {}
               ELSE ReadableNames(xml)
  IN  /\ rates' = [o \in {ObjId(3, nload + 1, r, p) :
                            r \in Regimes, p \in names} |->
                     rate_from_xml(xml, o[3], o[4])]
                    @@ [o \in used |-> rates[o]]
      /\ recorded' = recorded \cap used
      /\ finished' = [finished EXCEPT ![3] = 0]
      /\ merged' = {m \in merged : 3 \notin {m[1], m[2]}}
      /\ acc' = [acc EXCEPT ![3] =
           [background_rates |->
              [p \in names |-> ObjId(3, nload + 1, "background", p)],
            injection_rates |->
              [p \in names |-> ObjId(3, nload + 1, "injection", p)]]]
      /\ nload' = nload + 1
      /\ call' = [NoCall EXCEPT !.op = "from_xml", !.slot = 3,
                                !.args = args,
                                !.err = IF FromXmlFails(xml, name)
                                        THEN "ValueError" ELSE "none"]

\* c, process_id = coinc_params_distributions_from_xml(xml, name); c is
\* kept in slot 3.  Rate objects no accumulator holds any more are dropped.
\* args is what the call record keeps of the arguments.
LoadXml(xml, name, args) ==
  LET used == UNION {Range(acc[s].background_rates)
                       \cup Range(acc[s].injection_rates) : s \in {1, 2}}
  IN  IF FromXmlFails(xml, name)
      THEN /\ call' = [NoCall EXCEPT !.op = "from_xml", !.slot = 3,
                                     !.args = args, !.err = "ValueError"]
           /\ UNCHANGED <<rates, acc, recorded, finished, merged, nload>>
      ELSE /\ rates' = LoadedRates(xml, nload + 1)
                         @@ [o \in used |-> rates[o]]
           /\ recorded' = recorded \cap used
           /\ finished' = [finished EXCEPT ![3] = 0]
           /\ merged' = {m \in merged : 3 \notin {m[1], m[2]}}
           /\ acc' = [acc EXCEPT ![3] = LoadedDicts(xml, nload + 1)]
           /\ nload' = nload + 1
           /\ call' = [NoCall EXCEPT !.op = "from_xml", !.slot = 3,
                                     !.args = args]

\* the function on the element coinc_params_distributions_to_xml returned
from_xml(name) ==
  /\ xmldoc # <<>>
  /\ LoadXml(xmldoc[1], name, <<name>>)
  /\ UNCHANGED <<xmldoc, snap>>

\* xml with the child e left out
Without(xml, e) == [xml EXCEPT !.childNodes = @ \ {e}]

\* the function on a document that lacks one element of the one written
from_xml_lacking(name, e) ==
  /\ xmldoc # <<>>
  /\ e \in xmldoc[1].childNodes
  /\ LoadXml(Without(xmldoc[1], e), name, <<name, e>>)
  /\ UNCHANGED <<xmldoc, snap>>

(***************************************************************************)
(* The library in use: two accumulators made by the constructor, then any  *)
(* calls on them, with the coincs of a database as arguments.              *)
(***************************************************************************)
Kwargs(pair) == [name \in PairNames(pair) |-> rate_args[name]]

NoDicts == [background_rates |-> <<>>, injection_rates |-> <<>>]

\* no accumulator has had finish() called on it
NotFinished == [k \in 1..3 |-> 0]

\* (events, offsetdict) of the coincs
Coincs ==
  { <<(<<EventPool[1], EventPool[2]>>), ZeroLag>>,
    <<(<<EventPool[2], EventPool[1]>>), Slide>>,
    <<(<<EventPool[1], EventPool[3]>>), ZeroLag>>,
    <<(<<EventPool[4], EventPool[3]>>), ZeroLag>> }

\* the elements a document handed to the reader may lack: the arrays of the
\* dt parameters
Droppable(xml) ==
  {e \in xml.childNodes : e.Name[2] \in {"H1_H2_dt", "H1_L1_dt"}}

\* The accumulators that exist: 1 and 2 from the start, 3 once loaded.
Slots == {1, 2} \cup (IF nload > 0 THEN {3} ELSE {})

Init ==
  /\ \E kw \in {Kwargs(<<"H1", "H2">>), Kwargs(<<"H1", "L1">>),
                 [name \in {"H1_H2_dt"} |-> rate_args[name]]} :
       /\ acc = <<NewDicts(1, 0, Kwargs(<<"H1", "H2">>)), NewDicts(2, 0, kw),
                  NoDicts>>
       /\ rates = NewRates(1, 0, Kwargs(<<"H1", "H2">>)) @@ NewRates(2, 0, kw)
  /\ call = NoCall /\ recorded = {}
  /\ finished = NotFinished /\ merged = {}
  /\ ncalls = 0 /\ nload = 0
  /\ xmldoc = <<>> /\ snap = <<>>
  /\ pc = "lib" /\ opts = <<>> /\ read = {} /\ todo = <<>> /\ outfile = <<>>

\* a library call, counted
Lib(A) ==
  /\ pc = "lib" /\ ncalls < MaxCalls
  /\ A
  /\ ncalls' = ncalls + 1
  /\ UNCHANGED <<pc, opts, read, todo, outfile>>

Next ==
  \/ \E k \in Slots, c \in Coincs :
       Lib(add_background(k, "coinc_params", c[1], c[2]))
  \/ \E k \in Slots, c \in Coincs :
       Lib(add_injection(k, "coinc_params", c[1], c[2]))
  \/ \E k \in Slots, j \in Slots : k # j /\ Lib(iadd(k, j))
  \/ \E k \in Slots, other \in MismatchedOthers :
       Lib(iadd_mismatched(k, other))
  \/ \E k \in Slots : Lib(finish(k))
  \/ \E k \in Slots : Lib(set_filter(k, "H1_H2_dt"))
  \/ \E k \in Slots : Lib(to_xml(k))
  \/ \E name \in {ProgramName, "other"} : Lib(from_xml(name))
  \/ \E e \in UNION {Droppable(xmldoc[i]) : i \in 1..Len(xmldoc)} :
       Lib(from_xml_lacking(ProgramName, e))

Spec == Init /\ [][Next]_vars

(***************************************************************************)
(* DistributionsStats: one accumulator over rate_args, fed every coinc of  *)
(* a database through coinc_params.                                        *)
(***************************************************************************)
StatsInit ==
  /\ acc = <<NewDicts(1, 0, rate_args), NoDicts, NoDicts>>
  /\ rates = NewRates(1, 0, rate_args)
  /\ call = NoCall /\ recorded = {}
  /\ finished = NotFinished /\ merged = {}
  /\ ncalls = 0 /\ nload = 0
  /\ xmldoc = <<>> /\ snap = <<>>
  /\ pc = "stats" /\ opts = <<>> /\ read = {} /\ todo = <<>>
  /\ outfile = <<>>

\* DistributionsStats._add_background(param_func, events, offsetdict)
Stats_add_background(events, offsetdict) ==
  add_background(1, "coinc_params", events, offsetdict)

\* DistributionsStats._add_injections(param_func, sim, events, offsetdict)
Stats_add_injections(events, offsetdict) ==
  add_injection(1, "coinc_params", events, offsetdict)

\* DistributionsStats.finish()
Stats_finish == finish(1)

\* a call on the DistributionsStats object, counted
Stats(A) ==
  /\ pc = "stats" /\ ncalls < MaxStatCalls
  /\ A
  /\ ncalls' = ncalls + 1
  /\ UNCHANGED <<pc, opts, read, todo, outfile>>

StatsNext ==
  \/ \E events \in EventLists, offsetdict \in OffsetDicts :
       Stats(Stats_add_background(events, offsetdict))
  \/ \E events \in EventLists, offsetdict \in OffsetDicts :
       Stats(Stats_add_injections(events, offsetdict))
  \/ Stats(Stats_finish)

StatsSpec == StatsInit /\ [][StatsNext]_vars

(***************************************************************************)
(* coinc_params() called on its own, on lists that may hold several events *)
(* of one instrument.                                                      *)
(***************************************************************************)
\* Lists of at most MaxPick different rows of the pool, in any order.
PickedLists ==
  LET Idx == UNION {[1..n -> 1..Len(EventPool)] : n \in 0..MaxPick}
  IN  {[k \in 1..Len(ix) |-> EventPool[ix[k]]] :
         ix \in {jx \in Idx : \A a, b \in 1..Len(jx) : a # b => jx[a] # jx[b]}}

\* the arguments of the call are in the call record from the start
ParamsInit ==
  /\ \E events \in PickedLists, offsetdict \in OffsetDicts :
       call = [NoCall EXCEPT !.args = <<events, offsetdict>>]
  /\ acc = <<NoDicts, NoDicts, NoDicts>> /\ rates = <<>>
  /\ recorded = {} /\ finished = NotFinished /\ merged = {}
  /\ ncalls = 0 /\ nload = 0
  /\ xmldoc = <<>> /\ snap = <<>>
  /\ pc = "params" /\ opts = <<>> /\ read = {} /\ todo = <<>>
  /\ outfile = <<>>

\* params = coinc_params(events, offsetdict)
CallCoincParams ==
  /\ pc = "params" /\ call.op = "none"
  /\ LET res == coinc_params(call.args[1], call.args[2])
     IN  call' = [call EXCEPT !.op = "coinc_params",
                              !.returned = (res.exc = "none"),
                              !.params = res.params, !.err = res.exc]
  /\ UNCHANGED <<rates, acc, recorded, finished, merged, ncalls, nload,
                 xmldoc, snap, pc, opts, read, todo, outfile>>

ParamsNext == CallCoincParams

ParamsSpec == ParamsInit /\ [][ParamsNext]_vars

(***************************************************************************)
(* bin/plot_likelihood.py: the module body, one action per stage.          *)
(***************************************************************************)
SnrLo == 0
SnrHi == 50

Statistics ==
  {"snr", "snr_over_chi", "s3_snr_chi_stat", "effective_snr", "bitten_lsq",
   "bitten_l"}

\* the file globs of the options, in the order the script checks them
Globs == <<"zero_glob", "slide_glob", "injection_glob", "found_glob",
           "missed_glob">>

\* The option values a run may be given: for each glob the number of files
\* it matches, -1 when the option is absent.
OptionSets ==
  [statistic : {"effective_snr", "snr", "rho"},
   ifo : {"none", "H1", "L1"},
   coincs : {"none", "H1H2"},
   zero_glob : {-1, 0, 1}, slide_glob : {-1, 0, 1}, found_glob : {-1, 0, 1},
   injection_glob : {-1, 0}, missed_glob : {-1, 1}]

Trigger(snr) == [effective_snr |-> <<snr, 1>>]

\* The coincs a trigger file may hold: the instruments of each, with their
\* triggers.
CoincPool ==
  << ("H1" :> Trigger(3)) @@ ("H2" :> Trigger(7)),
     ("H2" :> Trigger(60)) @@ ("L1" :> Trigger(5)),
     ("H1" :> Trigger(60)) @@ ("L1" :> Trigger(50)) >>

CoincLists ==
  UNION {[1..n -> Range(CoincPool)] : n \in 0..MaxCoincs}

\* the keyword arguments of line 275
PlotKwargs ==
  [name \in {"H1_eff_snr", "H2_eff_snr", "L1_eff_snr", "H1H2_eff_snr",
             "H1L1_eff_snr", "H2L1_eff_snr"} |->
     <<(<<SnrLo, SnrHi>>), BinWidth>>]

PlotInit ==
  /\ opts \in OptionSets
  /\ pc = "globs"
  /\ acc = <<NoDicts, NoDicts, NoDicts>> /\ rates = <<>>
  /\ call = NoCall /\ recorded = {} /\ ncalls = 0 /\ nload = 0
  /\ finished = NotFinished /\ merged = {}
  /\ xmldoc = <<>> /\ snap = <<>>
  /\ read = {} /\ todo = <<>> /\ outfile = <<>>

LibUnchanged ==
  UNCHANGED <<rates, acc, call, recorded, finished, merged, nload, xmldoc,
              snap>>

\* the glob checks with the exits left out
CheckGlobsOn ==
  /\ pc = "globs"
  /\ pc' = "statistic"
  /\ LibUnchanged
  /\ UNCHANGED <<ncalls, opts, read, todo, outfile>>

\* lines 103-144: a glob that is given and matches no file ends the run
CheckGlobs ==
  /\ pc = "globs"
  /\ pc' = IF \E g \in Range(Globs) : opts[g] = 0 THEN "exit1" ELSE "statistic"
  /\ LibUnchanged
  /\ UNCHANGED <<ncalls, opts, read, todo, outfile>>

\* lines 147-155
CheckStatistic ==
  /\ pc = "statistic"
  /\ pc' = IF opts.statistic \notin Statistics THEN "exit1" ELSE "zerolag"
  /\ LibUnchanged
  /\ UNCHANGED <<ncalls, opts, read, todo, outfile>>

\* lines 203-249: the three reads; the file list of an absent option is an
\* unbound name
ReadFiles(at, glob, then) ==
  /\ pc = at
  /\ IF opts[glob] = -1
     THEN pc' = "NameError" /\ UNCHANGED read
     ELSE pc' = then /\ read' = read \cup {glob}
  /\ LibUnchanged
  /\ UNCHANGED <<ncalls, opts, todo, outfile>>

ReadZeroLag == ReadFiles("zerolag", "zero_glob", "slides")
ReadSlides == ReadFiles("slides", "slide_glob", "found")
ReadFound == ReadFiles("found", "found_glob", "construct")

\* line 275, and InjectionCoincs of line 249 as the first loop meets it
Construct ==
  /\ pc = "construct"
  /\ acc' = <<NewDicts(1, 0, PlotKwargs), NoDicts, NoDicts>>
  /\ rates' = NewRates(1, 0, PlotKwargs)
  /\ \E coincs \in CoincLists : todo' = coincs
  /\ pc' = "inj_single"
  /\ UNCHANGED <<call, recorded, finished, merged, ncalls, nload, xmldoc,
                 snap, opts, read, outfile>>

\* the instrument whose trigger the if / elif chain of a loop passes on,
\* "none" when no branch is taken
SingleBranch(coincs) ==
  IF opts.statistic = "effective_snr" /\ opts.ifo = "H1"
       /\ "H1" \in DOMAIN coincs THEN "H1"
  ELSE IF opts.statistic = "effective_snr" /\ opts.ifo = "H2"
       /\ "H2" \in DOMAIN coincs THEN "H2"
  ELSE IF opts.statistic = "effective_snr" /\ opts.ifo = "L1"
       /\ "L1" \in DOMAIN coincs THEN "L1"
  ELSE "none"

\* lines 292-304: the first statement of the loop over InjectionCoincs; the
\* loop over slidesCoincs follows it
InjectionSingle ==
  /\ pc = "inj_single"
  /\ IF todo = <<>>
     THEN /\ \E coincs \in CoincLists : todo' = coincs
          /\ pc' = "background"
          /\ LibUnchanged /\ UNCHANGED ncalls
     ELSE /\ pc' = "inj_double"
          /\ UNCHANGED todo
          /\ IF SingleBranch(Head(todo)) = "none"
             THEN LibUnchanged /\ UNCHANGED ncalls
             ELSE /\ add_injection(1, "single_params_func",
                                   Head(todo)[SingleBranch(Head(todo))], 0)
                  /\ ncalls' = ncalls + 1
  /\ UNCHANGED <<opts, read, outfile>>

\* lines 306-311: the second statement of the loop body
InjectionDouble ==
  /\ pc = "inj_double"
  /\ IF opts.statistic = "effective_snr" /\ opts.coincs = "H1H2"
          /\ "H1" \in DOMAIN Head(todo)
     THEN /\ add_injection(1, "double_params_func", Head(todo)["H1"], 0)
          /\ ncalls' = ncalls + 1
     ELSE LibUnchanged /\ UNCHANGED ncalls
  /\ todo' = Tail(todo)
  /\ pc' = "inj_single"
  /\ UNCHANGED <<opts, read, outfile>>

\* lines 320-332: the loop over slidesCoincs
Background ==
  /\ pc = "background"
  /\ IF todo = <<>>
     THEN /\ pc' = "gen"
          /\ LibUnchanged /\ UNCHANGED <<ncalls, todo>>
     ELSE /\ pc' = "background"
          /\ todo' = Tail(todo)
          /\ IF SingleBranch(Head(todo)) = "none"
             THEN LibUnchanged /\ UNCHANGED ncalls
             ELSE /\ add_background(1, "single_params_func",
                                    Head(todo)[SingleBranch(Head(todo))], 0)
                  /\ ncalls' = ncalls + 1
  /\ UNCHANGED <<opts, read, outfile>>

\* line 342: gen_likelihood_control(distributions), the document around
\* coinc_params_distributions_to_xml(process, distributions,
\* "ligolw_burca_tailor")
gen_likelihood_control ==
  /\ pc = "gen"
  /\ to_xml(1)
  /\ pc' = "write"
  /\ UNCHANGED <<ncalls, opts, read, todo, outfile>>

\* line 343: utils.write_filename(xmldoc, "distributions.xml")
write_filename ==
  /\ pc = "write"
  /\ outfile' = xmldoc
  /\ pc' = "finish"
  /\ LibUnchanged
  /\ UNCHANGED <<ncalls, opts, read, todo>>

\* line 345: distributions.finish(); the plots follow
PlotFinish ==
  /\ pc = "finish"
  /\ finish(1)
  /\ pc' = "plot"
  /\ UNCHANGED <<ncalls, opts, read, todo, outfile>>

PlotNext ==
  \/ CheckGlobs
  \/ CheckStatistic
  \/ ReadZeroLag
  \/ ReadSlides
  \/ ReadFound
  \/ Construct
  \/ InjectionSingle
  \/ InjectionDouble
  \/ Background
  \/ gen_likelihood_control
  \/ write_filename
  \/ PlotFinish

PlotSpec == PlotInit /\ [][PlotNext]_vars

(***************************************************************************)
(* The properties.                                                         *)
(***************************************************************************)
AddOps == {"add_background", "add_injection"}

RegimeOf(op) == IF op = "add_background" THEN "background" ELSE "injection"

\* the Rate objects of an accumulator
OwnRates(a) == Range(a.background_rates) \cup Range(a.injection_rates)

\* the Rate objects any accumulator holds under a regime
AllRates(regime) ==
  UNION {Range(Dict(acc[k], regime)) : k \in 1..Len(acc)}

\* the bins of h sum to 1
SumIsOne(h) == ~h.nan /\ SeqSum(h.num) = h.den

\* x lies in the interval of h
InInterval(h, x) == h.min * x[2] <= x[1] /\ x[1] <= h.max * x[2]

\* bin i of h is the one that holds x: its lower edge <= x < its upper edge,
\* the last bin holding the upper end of the interval as well
Holds(h, i, x) ==
  /\ i \in 1..h.n
  /\ (h.min * h.n + (i - 1) * (h.max - h.min)) * x[2] <= x[1] * h.n
  /\ \/ x[1] * h.n < (h.min * h.n + i * (h.max - h.min)) * x[2]
     \/ i = h.n /\ x[1] = h.max * x[2]

\* g is h with 1.0 added to the bin that holds x and no other bin changed
OneMore(h, g, x) ==
  /\ ~h.nan /\ ~g.nan /\ Len(g.num) = Len(h.num)
  /\ \A i \in 1..Len(h.num) :
       g.num[i] * h.den
         = (h.num[i] + (IF Holds(h, i, x) THEN h.den ELSE 0)) * g.den

\* C1: every histogram of the accumulator that an add method put an
\* in-interval value into sums to 1 after finish().
C1_FinishSumsToOne ==
  [][call'.op = "finish" =>
       \A o \in OwnRates(acc[call'.slot]) :
         o \in recorded => SumIsOne(rates'[o])]_vars

\* C2: the accumulator read back from the XML form has the parameter names
\* of the accumulator that was written and, for each name and regime, its
\* bin edges and bin values.
C2_RoundTrip ==
  (call.op = "from_xml" /\ Len(call.args) = 1 /\ call.err = "none") =>
    LET c == snap[1]
        d == View(acc[3], rates)
    IN  /\ DOMAIN d.background = DOMAIN c.background
        /\ DOMAIN d.injection = DOMAIN c.injection
        /\ \A r \in Regimes : \A p \in DOMAIN c[r] :
             /\ Edges(d[r][p]) = Edges(c[r][p])
             /\ d[r][p].num = c[r][p].num
             /\ d[r][p].den = c[r][p].den
             /\ d[r][p].nan = c[r][p].nan

\* an accumulator was read back whose background and injection histograms
\* of one parameter hold different counts
C2_Witness ==
  /\ call.op = "from_xml" /\ Len(call.args) = 1 /\ call.err = "none"
  /\ \E p \in DOMAIN acc[3].background_rates :
       /\ SeqSum(rates[acc[3].background_rates[p]].num) > 0
       /\ rates[acc[3].background_rates[p]]
            # rates[acc[3].injection_rates[p]]

\* C3: in an add method a value outside the interval of its parameter
\* leaves the histogram of that parameter as it was and raises nothing: the
\* call fails only over a name that has no histogram, and when it does not
\* fail every value inside its interval is counted.
C3_OutOfIntervalDropped ==
  [][(call'.op \in AddOps /\ call'.returned) =>
       LET d == Dict(acc[call'.slot], RegimeOf(call'.op))
           ps == call'.params
       IN  /\ \A p \in DOMAIN ps \cap DOMAIN d :
                ~InInterval(rates[d[p]], ps[p]) => rates'[d[p]] = rates[d[p]]
           /\ call'.err \in {"none", "KeyError"}
           /\ call'.err = "KeyError" => ~(DOMAIN ps \subseteq DOMAIN d)
           /\ call'.err = "none" =>
                \A p \in DOMAIN ps :
                  (InInterval(rates[d[p]], ps[p]) /\ ~rates[d[p]].nan)
                    => OneMore(rates[d[p]], rates'[d[p]], ps[p])]_vars

\* an add call has dropped the value of one parameter and counted another
C3_Witness ==
  /\ call.op \in AddOps /\ call.returned /\ call.err = "none"
  /\ LET d == Dict(acc[call.slot], RegimeOf(call.op))
     IN  /\ \E p \in DOMAIN call.params :
              /\ ~InInterval(rates[d[p]], call.params[p])
              /\ SeqSum(rates[d[p]].num) = 0
         /\ \E p \in DOMAIN call.params :
              /\ InInterval(rates[d[p]], call.params[p])
              /\ SeqSum(rates[d[p]].num) > 0

\* C4: an add_background call that completes adds 1.0 to the bin holding
\* the value, and changes no other bin, in the background histogram of every
\* name of the dictionary whose value lies in the interval.
C4_OneBinOneMore ==
  [][(call'.op = "add_background" /\ call'.returned /\ call'.err = "none") =>
       LET d == acc[call'.slot].background_rates
           ps == call'.params
       IN  \A p \in DOMAIN ps :
             InInterval(rates[d[p]], ps[p])
               => OneMore(rates[d[p]], rates'[d[p]], ps[p])]_vars

\* C5: add_injection counts in the injection histograms what add_background
\* counts in the background ones, and leaves every background histogram as
\* it was; add_background leaves every injection histogram as it was.
C5_OtherRegimeUntouched ==
  [][/\ call'.op = "add_injection" =>
          /\ \A o \in AllRates("background") : rates'[o] = rates[o]
          /\ (call'.returned /\ call'.err = "none") =>
               \A p \in DOMAIN call'.params :
                 LET o == acc[call'.slot].injection_rates[p]
                 IN  (InInterval(rates[o], call'.params[p]) /\ ~rates[o].nan)
                       => OneMore(rates[o], rates'[o], call'.params[p])
     /\ call'.op = "add_background" =>
          \A o \in AllRates("injection") : rates'[o] = rates[o]]_vars

\* add_injection has counted a value while a background histogram of the
\* same parameter holds another count
C5_Witness ==
  /\ call.op = "add_injection" /\ call.returned /\ call.err = "none"
  /\ \E p \in DOMAIN call.params :
       LET a == acc[call.slot]
       IN  /\ SeqSum(rates[a.injection_rates[p]].num) > 0
           /\ SeqSum(rates[a.background_rates[p]].num) > 0
           /\ rates[a.injection_rates[p]] # rates[a.background_rates[p]]

\* the bins of g are those of h1 plus those of h2, NaN where either is NaN
IsSum(g, h1, h2) ==
  IF h1.nan \/ h2.nan THEN g.nan
  ELSE /\ ~g.nan /\ Len(g.num) = Len(h1.num)
       /\ \A i \in 1..Len(h1.num) :
            g.num[i] * h1.den * h2.den
              = (h1.num[i] * h2.den + h2.num[i] * h1.den) * g.den

\* the bins of g are those of h
SameBins(g, h) ==
  /\ g.nan = h.nan /\ Len(g.num) = Len(h.num)
  /\ ~h.nan => \A i \in 1..Len(h.num) : g.num[i] * h.den = h.num[i] * g.den

\* C6: after a += b, for each regime and every name both define, each bin
\* of a is a's bin before plus b's bin, and the histograms of b are as they
\* were.
C6_MergeSumsBins ==
  [][(call'.op = "iadd" /\ call'.err = "none") =>
       LET k == call'.slot
           j == call'.other
       IN  \A r \in Regimes :
             /\ \A p \in DOMAIN Dict(acc[k], r) \cap DOMAIN Dict(acc[j], r) :
                  IsSum(rates'[Dict(acc'[k], r)[p]],
                        rates[Dict(acc[k], r)[p]], rates[Dict(acc[j], r)[p]])
             /\ DOMAIN Dict(acc'[j], r) = DOMAIN Dict(acc[j], r)
             /\ \A p \in DOMAIN Dict(acc[j], r) :
                  SameBins(rates'[Dict(acc'[j], r)[p]],
                           rates[Dict(acc[j], r)[p]])]_vars

\* C7: after a += b of accumulators with no name in common, a has exactly
\* the names of both, each histogram with the bins it had on its side, and
\* the histograms of b are as they were.
C7_DisjointMergeIsUnion ==
  [][(call'.op = "iadd" /\ call'.err = "none" /\ call'.common = {}) =>
       LET k == call'.slot
           j == call'.other
       IN  \A r \in Regimes :
             /\ DOMAIN Dict(acc'[k], r)
                  = DOMAIN Dict(acc[k], r) \cup DOMAIN Dict(acc[j], r)
             /\ \A p \in DOMAIN Dict(acc[k], r) :
                  SameBins(rates'[Dict(acc'[k], r)[p]],
                           rates[Dict(acc[k], r)[p]])
             /\ \A p \in DOMAIN Dict(acc[j], r) :
                  /\ SameBins(rates'[Dict(acc'[k], r)[p]],
                              rates[Dict(acc[j], r)[p]])
                  /\ SameBins(rates'[Dict(acc'[j], r)[p]],
                              rates[Dict(acc[j], r)[p]])
             /\ DOMAIN Dict(acc'[j], r) = DOMAIN Dict(acc[j], r)]_vars

\* two accumulators with no name in common, each holding a count, have been
\* merged
C7_Witness ==
  /\ call.op = "iadd" /\ call.err = "none" /\ call.common = {}
  /\ LET a == acc[call.slot].background_rates
         b == acc[call.other].background_rates
     IN  /\ \E p \in DOMAIN b : SeqSum(rates[a[p]].num) > 0
         /\ \E p \in DOMAIN a \ DOMAIN b : SeqSum(rates[a[p]].num) > 0

\* the names <ifoA>_<ifoB>_<suffix> with ifoA before ifoB in the alphabet
AlphabeticalNames ==
  {pair[1] \o "_" \o pair[2] \o "_" \o sfx :
     pair \in {<<"H1", "H2">>, <<"H1", "L1">>, <<"H2", "L1">>},
     sfx \in {"dt", "df", "dh", "dband", "ddur"}}

\* the instruments of a list of events
Ifos(events) == {events[i].ifo : i \in 1..Len(events)}

\* C8: every name coinc_params produces, whatever the order of the events,
\* is <ifoA>_<ifoB>_<suffix> with ifoA before ifoB in the alphabet, and is a
\* name DistributionsStats has a histogram for; events of H1 and H2 give
\* H1_H2_dt and never H2_H1_dt.
C8_NamesAlphabetical ==
  (call.op \in AddOps /\ call.returned) =>
    /\ DOMAIN call.params \subseteq AlphabeticalNames
    /\ DOMAIN call.params \subseteq DOMAIN acc[1].background_rates
    /\ DOMAIN call.params \subseteq DOMAIN acc[1].injection_rates
    /\ "H2_H1_dt" \notin DOMAIN call.params
    /\ {"H1", "H2"} \subseteq Ifos(call.args[1])
         => "H1_H2_dt" \in DOMAIN call.params

\* coinc_params was given an H2 event before an H1 event
C8_Witness ==
  /\ call.op \in AddOps /\ call.returned
  /\ Len(call.args[1]) = 2
  /\ call.args[1][1].ifo = "H2" /\ call.args[1][2].ifo = "H1"
  /\ "H1_H2_dt" \in DOMAIN call.params

\* C9, as stated: for every dictionary the parameter function returns, the
\* add method completes without raising.
C9_AsStated ==
  (call.op \in AddOps /\ call.returned) => call.err = "none"

\* C9, amended: for every dictionary the parameter function returns, the add
\* method completes without raising when every name of the dictionary has a
\* histogram in the mapping of its regime, and raises KeyError when one has
\* none.
C9_RaisesOnlyKeyError ==
  (call.op \in AddOps /\ call.returned) =>
    LET d == Dict(acc[call.slot], RegimeOf(call.op))
    IN  /\ call.err \in {"none", "KeyError"}
        /\ call.err = "none" <=> DOMAIN call.params \subseteq DOMAIN d

\* an add method has raised KeyError after counting a value
C9_Witness ==
  /\ call.op \in AddOps /\ call.returned /\ call.err = "KeyError"
  /\ LET d == Dict(acc[call.slot], RegimeOf(call.op))
     IN  \E p \in DOMAIN call.params \cap DOMAIN d :
           SeqSum(rates[d[p]].num) > 0

\* C10: whenever the output document of the plotting script is written,
\* finish() has been applied and the document holds the histograms of the
\* accumulator as finish() left them.
C10_WrittenAfterFinish ==
  outfile # <<>> =>
    /\ pc = "plot"
    /\ outfile[1] = coinc_params_distributions_to_xml(0, acc[1], rates,
                                                      ProgramName)

\* the calls that change an accumulator
Mutators == {"add_background", "add_injection", "iadd", "finish"}

\* C11: once finish() has been called on an accumulator, no later
\* add_background, add_injection, merge or finish call changes a bin of any
\* of its histograms.
C11_ImmutableAfterFinish ==
  [][call'.op \in Mutators =>
       \A k \in 1..Len(acc) :
         finished[k] > 0 =>
           \A r \in Regimes : \A p \in DOMAIN Dict(acc[k], r) :
             /\ p \in DOMAIN Dict(acc'[k], r)
             /\ SameBins(rates'[Dict(acc'[k], r)[p]],
                         rates[Dict(acc[k], r)[p]])]_vars

\* bin i of h, 0 beyond the ends
BinAt(h, i) == IF i \in 1..Len(h.num) THEN h.num[i] ELSE 0

\* bin i of h under the window (1, 2, 1), times 4 h.den
Windowed(h, i) == BinAt(h, i - 1) + 2 * BinAt(h, i) + BinAt(h, i + 1)

\* g is h smoothed by the window and divided by the sum of the result, NaN
\* where that sum is 0 or h is NaN
SmoothedAndNormalized(g, h) ==
  LET total == SeqSum([i \in 1..Len(h.num) |-> Windowed(h, i)])
  IN  IF h.nan \/ total = 0 THEN g.nan
      ELSE /\ ~g.nan /\ Len(g.num) = Len(h.num)
           /\ \A i \in 1..Len(h.num) : g.num[i] * total = Windowed(h, i) * g.den

\* C12: finish() on an accumulator already finished smooths and normalizes
\* every histogram of it again, and a histogram that holds values is not
\* what it was after the first finish().
C12_FinishNotIdempotent ==
  [][(call'.op = "finish" /\ finished[call'.slot] > 0) =>
       \A o \in OwnRates(acc[call'.slot]) :
         /\ SmoothedAndNormalized(rates'[o], rates[o])
         /\ ~rates[o].nan => ~SameBins(rates'[o], rates[o])]_vars

\* finish() has run twice on an accumulator one coinc was added to: the
\* count is spread over more bins than the window is wide
C12_Witness ==
  /\ call.op = "finish" /\ finished[call.slot] = 2 /\ ncalls = 3
  /\ \E o \in OwnRates(acc[call.slot]) \cap recorded :
       /\ SumIsOne(rates[o])
       /\ Cardinality({i \in 1..Len(rates[o].num) : rates[o].num[i] > 0}) > 3

\* C13: a += other with other not of the type of a fails with a type error
\* and leaves both mappings of a, and every histogram, as they were.
C13_MismatchedMergeTypeError ==
  [][(call'.op = "iadd" /\ call'.args # <<>>) =>
       /\ call'.err = "TypeError"
       /\ acc' = acc
       /\ rates' = rates]_vars

\* an accumulator that holds a count was given a subclass instance holding
\* histograms under names it lacks, and the merge has failed
C13_Witness ==
  /\ call.op = "iadd" /\ call.args # <<>> /\ call.err = "TypeError"
  /\ call.args[1].type = "subclass"
  /\ LET a == acc[call.slot].background_rates
         b == acc[call.args[1].slot].background_rates
     IN  /\ call.slot # call.args[1].slot
         /\ DOMAIN b \ DOMAIN a # {}
         /\ \E p \in DOMAIN a : SeqSum(rates[a[p]].num) > 0
         /\ \E p \in DOMAIN b : SeqSum(rates[b[p]].num) > 0

\* the document read by the from_xml call the record describes
DocumentRead ==
  IF Len(call.args) = 1 THEN xmldoc[1]
  ELSE Without(xmldoc[1], call.args[2])

\* xml is not the container named name, or holds a "background:<p>" array
\* with no "injection:<p>" array beside it
LacksElement(xml, name) ==
  \/ xml.Name[1] # name
  \/ \E c \in xml.childNodes :
       /\ c.Name[1] = "background"
       /\ \A d \in xml.childNodes :
            ~(d.Name[1] = "injection" /\ d.Name[2] = c.Name[2])

\* C14: reading a document that lacks the named container, or the
\* "injection:<name>" array of a "background:<name>" array it holds, fails
\* with an error, and no accumulator comes out of the call.
C14_MissingElementFails ==
  [][(call'.op = "from_xml" /\ LacksElement(DocumentRead', call'.args[1])) =>
       /\ call'.err # "none"
       /\ acc' = acc /\ rates' = rates /\ nload' = nload]_vars

\* a document with the injection array of one parameter missing and the
\* arrays of other parameters in place was read, and the call failed
C14_Witness ==
  /\ call.op = "from_xml" /\ Len(call.args) = 2 /\ call.err = "ValueError"
  /\ call.args[2].Name[1] = "injection"
  /\ Cardinality(ReadableNames(DocumentRead)) > 0
  /\ SeqSum(call.args[2].array.num) > 0

\* a glob option of the run was given and matches no file
EmptyGlob ==
  \E g \in {"zero_glob", "slide_glob", "injection_glob", "found_glob",
            "missed_glob"} : opts[g] = 0

\* the statistic of the run is none of the six names
BadStatistic ==
  opts.statistic \notin {"snr", "snr_over_chi", "s3_snr_chi_stat",
                         "effective_snr", "bitten_l", "bitten_lsq"}

\* C15: a run of the plotting script with a statistic outside the six names
\* or with a given glob that matches no file gets no further than its
\* checks, where it exits with status 1: no trigger file is read, no
\* accumulator is made and nothing is written.
C15_ExitBeforeReads ==
  /\ EmptyGlob => pc \in {"globs", "exit1"}
  /\ BadStatistic => pc \in {"globs", "statistic", "exit1"}
  /\ (EmptyGlob \/ BadStatistic) =>
       /\ read = {} /\ rates = <<>> /\ recorded = {}
       /\ xmldoc = <<>> /\ outfile = <<>>
  /\ pc = "exit1" => (EmptyGlob \/ BadStatistic)

\* a run whose globs all match files has exited over its statistic
C15_Witness ==
  /\ pc = "exit1" /\ BadStatistic /\ ~EmptyGlob
  /\ opts.zero_glob = 1 /\ opts.slide_glob = 1 /\ opts.found_glob = 1
  /\ read = {}

\* C16: the background mapping and the injection mapping of every
\* accumulator hold the same parameter names.
C16_SameNames ==
  \A k \in 1..Len(acc) :
    DOMAIN acc[k].background_rates = DOMAIN acc[k].injection_rates

\* an accumulator was read from a document that holds the injection array
\* of a parameter without its background array
C16_Witness ==
  /\ call.op = "from_xml" /\ Len(call.args) = 2 /\ call.err = "none"
  /\ call.args[2].Name[1] = "background"
  /\ DOMAIN acc[3].background_rates # {}
  /\ \E e \in DocumentRead.childNodes :
       e.Name[1] = "injection" /\ e.Name[2] = call.args[2].Name[2]

\* the five deltas of the events e1 and e2, by suffix, as fractions
DeltasOf(e1, e2, offsetdict) ==
  [dt |-> <<e1.peak + offsetdict[e1.ifo] - e2.peak - offsetdict[e2.ifo], 1>>,
   df |-> <<2 * (e1.peak_frequency - e2.peak_frequency),
            e1.peak_frequency + e2.peak_frequency>>,
   dh |-> <<2 * (e1.ms_hrss - e2.ms_hrss), e1.ms_hrss + e2.ms_hrss>>,
   dband |-> <<2 * (e1.ms_bandwidth - e2.ms_bandwidth),
               e1.ms_bandwidth + e2.ms_bandwidth>>,
   ddur |-> <<2 * (e1.ms_duration - e2.ms_duration),
              e1.ms_duration + e2.ms_duration>>]

\* the deltas, under suffix sfx, of all pairs of an event of instrument a
\* and one of instrument b in the list
PairDeltas(events, offsetdict, a, b, sfx) ==
  {DeltasOf(events[i], events[j], offsetdict)[sfx] :
     i \in {x \in 1..Len(events) : events[x].ifo = a},
     j \in {x \in 1..Len(events) : events[x].ifo = b}}

\* the fractions x and y are equal / equal in absolute value
SameValue(x, y) == x[1] * y[2] = y[1] * x[2]

SameSize(x, y) == Abs(x[1] * y[2]) = Abs(y[1] * x[2])

\* params holds, for each alphabetical pair of different instruments that
\* both have an event in the list and each suffix, a delta of smallest
\* absolute value among those of the pair, and nothing else
SmallestDeltas(params, events, offsetdict) ==
  LET pairs == {<<"H1", "H2">>, <<"H1", "L1">>, <<"H2", "L1">>}
      sfxs == {"dt", "df", "dh", "dband", "ddur"}
      name(pr, sfx) == pr[1] \o "_" \o pr[2] \o "_" \o sfx
      present == {pr \in pairs : {pr[1], pr[2]} \subseteq Ifos(events)}
  IN  /\ DOMAIN params = {name(pr, sfx) : pr \in present, sfx \in sfxs}
      /\ \A pr \in present, sfx \in sfxs :
           LET ds == PairDeltas(events, offsetdict, pr[1], pr[2], sfx)
               v == params[name(pr, sfx)]
           IN  /\ \E d \in ds : SameValue(v, d)
               /\ \A d \in ds : Abs(v[1]) * d[2] <= Abs(d[1]) * v[2]

\* the lists that hold the events of a list in some order
Orders(events) ==
  {t \in [1..Len(events) -> Range(events)] : Range(t) = Range(events)}

\* C17, as stated: what coinc_params returns holds for each instrument pair
\* and suffix the delta of smallest absolute value over the cross-instrument
\* pairs of events, nothing for events of one instrument, and is the same
\* for every order of the events.
C17_AsStated ==
  (call.op = "coinc_params" /\ call.returned) =>
    /\ SmallestDeltas(call.params, call.args[1], call.args[2])
    /\ \A t \in Orders(call.args[1]) :
         LET other == coinc_params(t, call.args[2])
         IN  /\ other.exc = "none"
             /\ DOMAIN other.params = DOMAIN call.params
             /\ \A n \in DOMAIN call.params :
                  SameValue(other.params[n], call.params[n])

\* C17, amended: ... and has the same names and the same absolute values
\* for every order of the events (of two deltas of smallest absolute value
\* and opposite sign, the order decides which is returned).
C17_SmallestDeltas ==
  (call.op = "coinc_params" /\ call.returned) =>
    /\ SmallestDeltas(call.params, call.args[1], call.args[2])
    /\ \A t \in Orders(call.args[1]) :
         LET other == coinc_params(t, call.args[2])
         IN  /\ other.exc = "none"
             /\ DOMAIN other.params = DOMAIN call.params
             /\ \A n \in DOMAIN call.params :
                  SameSize(other.params[n], call.params[n])

\* coinc_params was given two H1 events before an H2 event, the pair met
\* first having the larger time difference
C17_Witness ==
  /\ call.op = "coinc_params" /\ call.returned
  /\ Len(call.args[1]) = 3
  /\ call.args[1][1].ifo = "H1" /\ call.args[1][2].ifo = "H1"
  /\ call.args[1][3].ifo = "H2"
  /\ LET first == DeltasOf(call.args[1][1], call.args[1][3],
                           call.args[2]).dt
     IN  /\ ~SameSize(first, call.params["H1_H2_dt"])
         /\ "H1_H2_dt" \in DOMAIN call.params

\* every histogram accumulator k holds before the step has the same bins
\* after it
HistogramsKept(k) ==
  \A r \in Regimes : \A p \in DOMAIN Dict(acc[k], r) :
    /\ p \in DOMAIN Dict(acc'[k], r)
    /\ SameBins(rates'[Dict(acc'[k], r)[p]], rates[Dict(acc[k], r)[p]])

\* C18: after a += b where b defined a parameter that a did not, an
\* add_background, add_injection or finish on a leaves every histogram of b
\* unchanged, and one on b leaves every histogram of a unchanged.
C18_IndependentAfterMerge ==
  [][call'.op \in {"add_background", "add_injection", "finish"} =>
       \A m \in merged :
         /\ call'.slot = m[1] => HistogramsKept(m[2])
         /\ call'.slot = m[2] => HistogramsKept(m[1])]_vars

====
